---- MODULE Spec2Model ----
(***************************************************************************)
(* Model of the AVDTP signalling decoder of monitor/avdtp.c.               *)
(*                                                                         *)
(* avdtp_packet is called once per captured L2CAP frame.  It keeps no     *)
(* state between calls: its only storage is the local struct avdtp_frame, *)
(* which is not initialised on entry.  The model records the frames       *)
(* passed so far and, for each of them, the sequence of records handed to *)
(* the output functions (print_indent, print_field, print_text,           *)
(* packet_hexdump), together with the return value and the struct as they *)
(* stand when the last call returns.                                      *)
(***************************************************************************)
EXTENDS Integers, Sequences, FiniteSets, TLC

VARIABLES frames, outs, avdtp_frame, ret

vars == <<frames, outs, avdtp_frame, ret>>

(***************************************************************************)
(* Bounds of the model.                                                    *)
(***************************************************************************)
\* longest body (the bytes after the header byte) of a frame of SpecOne
MaxPayload == 5
\* longest body of a frame of Spec
MaxFragLen == 2
\* number of frames passed to avdtp_packet in Spec
MaxFrames == 2

(***************************************************************************)
(* Program constants.                                                      *)
(***************************************************************************)
AVDTP_MSG_TYPE_COMMAND == 0
AVDTP_MSG_TYPE_GENERAL_REJECT == 1
AVDTP_MSG_TYPE_RESPONSE_ACCEPT == 2
AVDTP_MSG_TYPE_RESPONSE_REJECT == 3

AVDTP_DISCOVER == 1

(***************************************************************************)
(* Bit operations on a uint8_t.                                            *)
(***************************************************************************)
\* x >> n
Shr(x, n) == x \div (2 ^ n)

\* bit n of x is set: (x & (1 << n)) != 0
Bit(x, n) == Shr(x, n) % 2 = 1

\* hdr & 0x03
MsgType(hdr) == hdr % 4

\* hdr & 0x0c
PktType(hdr) == (Shr(hdr, 2) % 4) * 4

(***************************************************************************)
(* Symbol tables.                                                          *)
(***************************************************************************)
msgtype2str(msgtype) ==
    CASE msgtype = 0 -> "Command"
      [] msgtype = 1 -> "General Reject"
      [] msgtype = 2 -> "Response Accept"
      [] msgtype = 3 -> "Response Reject"
      [] OTHER -> ""

sigid2str(sigid) ==
    CASE sigid = 1 -> "Discover"
      [] sigid = 2 -> "Get Capabilities"
      [] sigid = 3 -> "Set Configuration"
      [] sigid = 4 -> "Get Configuration"
      [] sigid = 5 -> "Reconfigure"
      [] sigid = 6 -> "Open"
      [] sigid = 7 -> "Start"
      [] sigid = 8 -> "Close"
      [] sigid = 9 -> "Suspend"
      [] sigid = 10 -> "Abort"
      [] sigid = 11 -> "Security Control"
      [] sigid = 12 -> "Get All Capabilities"
      [] sigid = 13 -> "Delay Report"
      [] OTHER -> "Reserved"

error2str(error) ==
    CASE error = 1 -> "BAD_HEADER_FORMAT"
      [] error = 17 -> "BAD_LENGTH"
      [] error = 18 -> "BAD_ACP_SEID"
      [] error = 19 -> "SEP_IN_USE"
      [] error = 20 -> "SEP_NOT_IN_USER"
      [] error = 23 -> "BAD_SERV_CATEGORY"
      [] error = 24 -> "BAD_PAYLOAD_FORMAT"
      [] error = 25 -> "NOT_SUPPORTED_COMMAND"
      [] error = 26 -> "INVALID_CAPABILITIES"
      [] error = 34 -> "BAD_RECOVERY_TYPE"
      [] error = 35 -> "BAD_MEDIA_TRANSPORT_FORMAT"
      [] error = 37 -> "BAD_RECOVERY_FORMAT"
      [] error = 38 -> "BAD_ROHC_FORMAT"
      [] error = 39 -> "BAD_CP_FORMAT"
      [] error = 40 -> "BAD_MULTIPLEXING_FORMAT"
      [] error = 41 -> "UNSUPPORTED_CONFIGURATION"
      [] error = 49 -> "BAD_STATE"
      [] OTHER -> "Unknown"

mediatype2str(media_type) ==
    CASE media_type = 0 -> "Audio"
      [] media_type = 1 -> "Video"
      [] media_type = 2 -> "Multimedia"
      [] OTHER -> "Reserved"

(***************************************************************************)
(* The output sink: one record per call of an output function.             *)
(***************************************************************************)
\* print_field(fmt, ...): the label, the string argument and the number
print_field(label, str, val) ==
    [kind |-> "field", label |-> label, str |-> str, val |-> val]

\* print_text(COLOR_ERROR, "PDU malformed")
print_text(text) == [kind |-> "text", text |-> text]

\* packet_hexdump(buf, len)
packet_hexdump(data) == [kind |-> "hexdump", data |-> data]

\* print_indent(6, pdu_color, "AVDTP: ", sigid2str(sig_id), COLOR_OFF, ...)
print_indent(pdu_color, sig_id, hdr, nosp) ==
    [kind |-> "indent", color |-> pdu_color,
     name |-> sigid2str(sig_id), sig_id |-> sig_id,
     msgtype |-> msgtype2str(MsgType(hdr)), msgcode |-> MsgType(hdr),
     type |-> PktType(hdr), label |-> Shr(hdr, 4), nosp |-> nosp]

(***************************************************************************)
(* The frame cursor (struct l2cap_frame): the direction flag and the bytes *)
(* not yet consumed.                                                       *)
(***************************************************************************)
\* l2cap_frame_get_u8 succeeds iff one byte is left
l2cap_frame_has_u8(frame) == Len(frame.data) >= 1

\* the byte l2cap_frame_get_u8 stores
l2cap_frame_u8(frame) == Head(frame.data)

\* the cursor after l2cap_frame_get_u8 has consumed its byte
l2cap_frame_pull1(frame) == [frame EXCEPT !.data = Tail(frame.data)]

(***************************************************************************)
(* The decoding functions.  Each takes the state of a call, st, with       *)
(*   st.af  : the struct avdtp_frame (hdr, sig_id, l2cap_frame)            *)
(*   st.out : the records emitted so far by this call                      *)
(* and yields that state after the function, with its return value in ret. *)
(***************************************************************************)
Return(st, r) == [ret |-> r, af |-> st.af, out |-> st.out]

Emit(st, rec) == [st EXCEPT !.out = Append(@, rec)]

GetU8(st) == [st EXCEPT !.af.l2cap_frame = l2cap_frame_pull1(@)]

avdtp_reject_common(st) ==
    IF ~l2cap_frame_has_u8(st.af.l2cap_frame)
    THEN Return(st, FALSE)
    ELSE LET error == l2cap_frame_u8(st.af.l2cap_frame)
         IN  Return(Emit(GetU8(st),
                         print_field("Error code", error2str(error), error)),
                    TRUE)

\* info & 0x04 ? "SNK" : "SRC", read from bit 3 instead
SepTypeStrBit3(info) == IF Bit(info, 3) THEN "SNK" ELSE "SRC"

\* info & 0x04 ? "SNK" : "SRC"
SepTypeStr(info) == IF Bit(info, 2) THEN "SNK" ELSE "SRC"

\* the while loop of the Response Accept case of avdtp_discover
RECURSIVE DiscoverEntries(_)
DiscoverEntries(st) ==
    IF ~l2cap_frame_has_u8(st.af.l2cap_frame)
    THEN Return(st, TRUE)
    ELSE LET seid == l2cap_frame_u8(st.af.l2cap_frame)
             s1 == Emit(GetU8(st), print_field("ACP SEID", "", Shr(seid, 2)))
         IN  IF ~l2cap_frame_has_u8(s1.af.l2cap_frame)
             THEN Return(s1, FALSE)
             ELSE LET info == l2cap_frame_u8(s1.af.l2cap_frame)
                      s2 == Emit(GetU8(s1),
                                 print_field("Media Type",
                                             mediatype2str(Shr(info, 4)),
                                             Shr(info, 4)))
                      s3 == Emit(s2,
                                 print_field("SEP Type",
                                             SepTypeStr(info),
                                             Shr(info, 3) % 2))
                      s4 == Emit(s3,
                                 print_field("In use",
                                             IF Bit(seid, 1) THEN "Yes" ELSE "No",
                                             0))
                  IN  DiscoverEntries(s4)

avdtp_discover(st) ==
    LET type == MsgType(st.af.hdr)
    IN  CASE type = AVDTP_MSG_TYPE_COMMAND -> Return(st, TRUE)
          [] type = AVDTP_MSG_TYPE_RESPONSE_ACCEPT -> DiscoverEntries(st)
          [] type = AVDTP_MSG_TYPE_RESPONSE_REJECT -> avdtp_reject_common(st)
          [] OTHER -> Return(st, FALSE)

\* the early return taken for message type AVDTP_MSG_TYPE_GENERAL_REJECT
IsGeneralRejectByName(hdr) == MsgType(hdr) = AVDTP_MSG_TYPE_GENERAL_REJECT

\* the test that guards the early return commented "General Reject"
IsGeneralReject(hdr) == MsgType(hdr) = 3

\* avdtp_signalling_packet from the print_indent call on, with the summary
\* line printed after the decoding instead of before it
AfterSigIdSummaryLast(st, nosp) ==
    LET hdr == st.af.hdr
        sig_id == st.af.sig_id
        frame == st.af.l2cap_frame
        pdu_color == IF frame.in THEN "MAGENTA" ELSE "BLUE"
        summary == print_indent(pdu_color, sig_id, hdr, nosp)
    IN  IF PktType(hdr) = 4
        THEN Return(Emit(Emit(st, packet_hexdump(frame.data)), summary), TRUE)
        ELSE IF IsGeneralReject(hdr)
        THEN Return(Emit(st, summary), TRUE)
        ELSE IF sig_id = AVDTP_DISCOVER
        THEN LET r == avdtp_discover(st)
             IN  [r EXCEPT !.out = Append(@, summary)]
        ELSE Return(Emit(Emit(st, packet_hexdump(frame.data)), summary), TRUE)

\* avdtp_signalling_packet from the print_indent call on; nosp is the local
AfterSigId(st, nosp) ==
    LET hdr == st.af.hdr
        sig_id == st.af.sig_id
        frame == st.af.l2cap_frame
        pdu_color == IF frame.in THEN "MAGENTA" ELSE "BLUE"
        s1 == Emit(st, print_indent(pdu_color, sig_id, hdr, nosp))
    IN  IF PktType(hdr) = 4
        THEN Return(Emit(s1, packet_hexdump(frame.data)), TRUE)
        ELSE IF IsGeneralReject(hdr)
        THEN Return(s1, TRUE)
        ELSE IF sig_id = AVDTP_DISCOVER
        THEN avdtp_discover(s1)
        ELSE Return(Emit(s1, packet_hexdump(frame.data)), TRUE)

\* avdtp_signalling_packet from the read of the signal id on
ReadSigId(st, nosp) ==
    IF ~l2cap_frame_has_u8(st.af.l2cap_frame)
    THEN Return(st, FALSE)
    ELSE LET sig_id == l2cap_frame_u8(st.af.l2cap_frame) % 64
         IN  AfterSigId([GetU8(st) EXCEPT !.af.sig_id = sig_id], nosp)

\* the header byte read but not stored in the struct
StoreHdrSkipped(st, hdr) == st

\* avdtp_signalling_packet once the header byte is read: the assignment
\* avdtp_frame->hdr = hdr
StoreHdr(st, hdr) == [st EXCEPT !.af.hdr = hdr]

avdtp_signalling_packet(st) ==
    IF ~l2cap_frame_has_u8(st.af.l2cap_frame)
    THEN Return(st, FALSE)
    ELSE LET hdr == l2cap_frame_u8(st.af.l2cap_frame)
             s1 == StoreHdr(GetU8(st), hdr)
         IN  IF PktType(hdr) = 8 \/ PktType(hdr) = 12
             THEN Return(Emit(s1, packet_hexdump(s1.af.l2cap_frame.data)), TRUE)
             ELSE IF PktType(hdr) = 4
             THEN IF ~l2cap_frame_has_u8(s1.af.l2cap_frame)
                  THEN Return(s1, FALSE)
                  ELSE ReadSigId(GetU8(s1), l2cap_frame_u8(s1.af.l2cap_frame))
             ELSE ReadSigId(s1, 0)

\* the dump after the "PDU malformed" line taken from the cursor instead
MalformedDumpFromCursor(frame, st) == st.af.l2cap_frame.data

\* the bytes dumped after the "PDU malformed" line
MalformedDump(frame, st) == frame.data

\* avdtp_packet(frame) entered with the bytes uninit in the fields hdr and
\* sig_id of its local struct
avdtp_packet(frame, uninit) ==
    LET st0 == [af |-> [hdr |-> uninit[1], sig_id |-> uninit[2],
                        l2cap_frame |-> [in |-> frame.in, data |-> frame.data]],
                out |-> <<>>]
    IN  IF frame.seq_num = 1
        THEN LET r == avdtp_signalling_packet(st0)
             IN  IF ~r.ret
                 THEN [ret |-> "false", af |-> r.af,
                       out |-> r.out \o <<print_text("PDU malformed"),
                                          packet_hexdump(MalformedDump(frame, r))>>]
                 ELSE [ret |-> "true", af |-> r.af, out |-> r.out]
        ELSE [ret |-> "unset", af |-> st0.af,
              out |-> <<packet_hexdump(frame.data)>>]

(***************************************************************************)
(* The frames the capture loop passes.                                     *)
(***************************************************************************)
SeqsUpTo(S, n) == UNION {[1..k -> S] : k \in 0..n}

\* frames of channel seq_num and direction in: no byte at all, or a header
\* byte of hdrs followed by at most n bytes of bytes
FramesOf(seqnums, ins, hdrs, bytes, n) ==
    {[seq_num |-> s, in |-> i, data |-> d] :
        s \in seqnums, i \in ins,
        d \in {<<>>} \cup {<<h>> \o b : h \in hdrs, b \in SeqsUpTo(bytes, n)}}

\* header bytes: the four message types of a Single packet, Start, Continue
\* and End packets, and transaction labels other than 0
HdrBytes == {0, 1, 2, 3, 6, 8, 12, 18, 19}

PayloadBytes == {1, 4, 8, 19, 65}

\* the frames of SpecOne
Frames ==
    FramesOf({1}, BOOLEAN, HdrBytes, PayloadBytes, MaxPayload)
        \cup FramesOf({2}, {TRUE}, {2}, {1}, 1)

FragHdrBytes == {2, 6, 10, 14}

FragBytes == {1, 4}

\* the frames of Spec
SeqFrames == FramesOf({1}, {TRUE}, FragHdrBytes, FragBytes, MaxFragLen)

\* what the uninitialised fields hdr and sig_id may hold on entry
Uninit == {<<0, 0>>, <<2, 1>>}

(***************************************************************************)
(* The state machine.                                                      *)
(***************************************************************************)
Init ==
    /\ frames = <<>>
    /\ outs = <<>>
    /\ avdtp_frame = [hdr |-> 0, sig_id |-> 0,
                      l2cap_frame |-> [in |-> TRUE, data |-> <<>>]]
    /\ ret = "unset"

\* one call of avdtp_packet
AvdtpPacket(frame, uninit) ==
    LET r == avdtp_packet(frame, uninit)
    IN  /\ frames' = Append(frames, frame)
        /\ outs' = Append(outs, r.out)
        /\ avdtp_frame' = r.af
        /\ ret' = r.ret

Next ==
    /\ Len(frames) < MaxFrames
    /\ \E frame \in SeqFrames, uninit \in Uninit :
           AvdtpPacket(frame, uninit)

Spec == Init /\ [][Next]_vars

NextOne ==
    /\ Len(frames) < 1
    /\ \E frame \in Frames, uninit \in Uninit :
           AvdtpPacket(frame, uninit)

SpecOne == Init /\ [][NextOne]_vars

(***************************************************************************)
(* Vocabulary of the properties.                                           *)
(***************************************************************************)
\* number of calls of avdtp_packet so far
NCalls == Len(frames)

\* the frame of the last call and the records it emitted
LastFrame == frames[NCalls]

LastOut == outs[NCalls]

\* a frame of the signalling channel
IsSignalling(f) == f.seq_num = 1

\* the fragmentation kind of a signalling frame that has a header byte
HasHdr(f) == IsSignalling(f) /\ Len(f.data) >= 1

IsSingle(f) == HasHdr(f) /\ (f.data[1] \div 4) % 4 = 0

IsStart(f) == HasHdr(f) /\ (f.data[1] \div 4) % 4 = 1

IsContinue(f) == HasHdr(f) /\ (f.data[1] \div 4) % 4 = 2

IsEnd(f) == HasHdr(f) /\ (f.data[1] \div 4) % 4 = 3

\* the message type code and the transaction label of the header byte
TypeOf(f) == f.data[1] % 4

LabelOf(f) == f.data[1] \div 16

\* a Single packet that carries its signal id
IsSingleWithSigId(f) == IsSingle(f) /\ Len(f.data) >= 2

SigIdOf(f) == f.data[2] % 64

\* the bytes of a Single packet after the signal id
PayloadOf(f) == SubSeq(f.data, 3, Len(f.data))

\* a Single-packet Discover Response Accept
IsDiscoverAccept(f) ==
    IsSingleWithSigId(f) /\ TypeOf(f) = 2 /\ SigIdOf(f) = 1

\* the records of o of kind k
OfKind(o, k) == SelectSeq(o, LAMBDA r : r.kind = k)

\* the records of o other than the summary line
Decoded(o) == SelectSeq(o, LAMBDA r : r.kind # "indent")

MalformedMarker == [kind |-> "text", text |-> "PDU malformed"]

IsMalformed(o) == \E k \in 1..Len(o) : o[k] = MalformedMarker

\* the four records of a Discover entry made of the bytes seid and info
EntryRecords(seid, info) ==
    << [kind |-> "field", label |-> "ACP SEID", str |-> "", val |-> seid \div 4],
       [kind |-> "field", label |-> "Media Type",
        str |-> mediatype2str(info \div 16), val |-> info \div 16],
       [kind |-> "field", label |-> "SEP Type",
        str |-> IF (info \div 4) % 2 = 1 THEN "SNK" ELSE "SRC",
        val |-> (info \div 8) % 2],
       [kind |-> "field", label |-> "In use",
        str |-> IF (seid \div 2) % 2 = 1 THEN "Yes" ELSE "No", val |-> 0] >>

\* the records of the first n entries of the entry list p
RECURSIVE EntriesRecords(_, _)
EntriesRecords(p, n) ==
    IF n = 0 THEN <<>>
    ELSE EntriesRecords(p, n - 1) \o EntryRecords(p[2 * n - 1], p[2 * n])

(***************************************************************************)
(* C4: a Single-packet Discover Response Accept with an entry list of even *)
(* length 2n is decoded without a malformed marker into the summary line   *)
(* followed by exactly n entries in payload order, entry i showing ACP     *)
(* SEID = first byte >> 2, in-use Yes iff bit 1 of the first byte, the     *)
(* media type name of second byte >> 4, and SNK iff bit 2 of the second    *)
(* byte, else SRC; the bytes 04 08 08 08 give two entries, SEID 1 and 2,   *)
(* Audio, SRC, not in use.                                                 *)
(***************************************************************************)
C4_DiscoverAcceptEven ==
    (NCalls >= 1 /\ IsDiscoverAccept(LastFrame)
        /\ Len(PayloadOf(LastFrame)) % 2 = 0)
    => LET p == PayloadOf(LastFrame)
           n == Len(p) \div 2
       IN  /\ ret = "true"
           /\ ~IsMalformed(LastOut)
           /\ Len(LastOut) = 1 + 4 * n
           /\ LastOut[1].kind = "indent"
           /\ Decoded(LastOut) = EntriesRecords(p, n)
           /\ Len(OfKind(LastOut, "hexdump")) = 0
           /\ (p = <<4, 8, 8, 8>> =>
                 /\ LastOut[2] = [kind |-> "field", label |-> "ACP SEID",
                                  str |-> "", val |-> 1]
                 /\ LastOut[6] = [kind |-> "field", label |-> "ACP SEID",
                                  str |-> "", val |-> 2]
                 /\ \A k \in {3, 7} : LastOut[k].label = "Media Type"
                                       /\ LastOut[k].str = "Audio"
                 /\ \A k \in {4, 8} : LastOut[k].label = "SEP Type"
                                       /\ LastOut[k].str = "SRC"
                 /\ \A k \in {5, 9} : LastOut[k].label = "In use"
                                       /\ LastOut[k].str = "No")

\* the Discover Response Accept 02 01 04 08 08 08 has been decoded into its
\* summary and eight field records
C4_Witness ==
    /\ NCalls = 1
    /\ LastFrame.seq_num = 1
    /\ LastFrame.data = <<2, 1, 4, 8, 8, 8>>
    /\ Len(LastOut) = 9

(***************************************************************************)
(* C3: a Single-packet Discover Response Accept with an entry list of odd  *)
(* length 2n+1 is malformed and no record at all is emitted for the        *)
(* incomplete last entry: only the n complete entries produce records.     *)
(***************************************************************************)
C3_OddEntryListNoPartialEntry ==
    (NCalls >= 1 /\ IsDiscoverAccept(LastFrame)
        /\ Len(PayloadOf(LastFrame)) % 2 = 1)
    => LET p == PayloadOf(LastFrame)
           n == Len(p) \div 2
       IN  /\ ret = "false"
           /\ IsMalformed(LastOut)
           /\ OfKind(LastOut, "field") = EntriesRecords(p, n)

C6_ResponseRejectErrorCode ==
    (NCalls >= 1 /\ IsSingleWithSigId(LastFrame)
        /\ TypeOf(LastFrame) = AVDTP_MSG_TYPE_RESPONSE_REJECT)
    => LET p == PayloadOf(LastFrame)
       IN  IF Len(p) >= 1
           THEN /\ OfKind(LastOut, "field")
                     = << [kind |-> "field", label |-> "Error code",
                           str |-> error2str(p[1]), val |-> p[1]] >>
                /\ avdtp_frame.l2cap_frame.data = Tail(p)
           ELSE ret = "false" /\ IsMalformed(LastOut)

(***************************************************************************)
(* C7: for every Single packet of message type General Reject (code 1),    *)
(* for every signal id, Discover included, and every payload, the decoder  *)
(* emits the summary line only: no field record, no byte dump and no       *)
(* malformed marker.                                                       *)
(***************************************************************************)
C7_GeneralRejectSummaryOnly ==
    (NCalls >= 1 /\ IsSingleWithSigId(LastFrame)
        /\ TypeOf(LastFrame) = AVDTP_MSG_TYPE_GENERAL_REJECT)
    => /\ Len(LastOut) = 1
       /\ LastOut[1].kind = "indent"

LacksByte(f) ==
    /\ IsSignalling(f)
    /\ \/ Len(f.data) = 0
       \/ IsStart(f) /\ Len(f.data) < 3
       \/ IsSingle(f) /\ Len(f.data) < 2
       \/ IsDiscoverAccept(f) /\ Len(PayloadOf(f)) % 2 = 1

HasSummaryBytes(f) ==
    \/ IsSingle(f) /\ Len(f.data) >= 2
    \/ IsStart(f) /\ Len(f.data) >= 3

C10_FramesIndependent ==
    /\ Len(outs) = Len(frames)
    /\ \A j \in 1..NCalls :
         /\ \A u \in Uninit : outs[j] = avdtp_packet(frames[j], u).out
         /\ \A i \in 1..(j - 1) : frames[i] = frames[j] => outs[i] = outs[j]

\* a Single Get Configuration Response Accept decoded into its summary and
\* the dump of its payload right after a Discover response that failed
C10_Witness ==
    /\ NCalls = 2
    /\ frames[1].data = <<2, 1, 4>>
    /\ IsMalformed(outs[1])
    /\ frames[2].data = <<2, 4, 1>>
    /\ ret = "true"
    /\ outs[2][1].kind = "indent"
    /\ outs[2][2] = [kind |-> "hexdump", data |-> <<1>>]

\* the fragments s and e belong to the same reassembly key
SameKey(s, e) == s.in = e.in /\ LabelOf(s) = LabelOf(e)

\* the Single packet that carries the signal id of the Start fragment s and
\* the payload bytes of s followed by those of the End fragment e
SingleOf(s, e) ==
    [seq_num |-> 1, in |-> s.in,
     data |-> <<s.data[1] - 4, s.data[3]>>
                 \o SubSeq(s.data, 4, Len(s.data)) \o Tail(e.data)]

(***************************************************************************)
(* C1: a Start fragment immediately followed by an End fragment of the     *)
(* same reassembly key is dispatched as the Single packet that carries the *)
(* concatenation of the two payloads: the same signal id and the same      *)
(* decoded records; the Start fragment alone causes no dispatch.           *)
(***************************************************************************)
C1_StartEndAsSingle ==
    \A i \in 1..(NCalls - 1) :
        (/\ IsStart(frames[i]) /\ Len(frames[i].data) >= 3
         /\ IsEnd(frames[i + 1])
         /\ SameKey(frames[i], frames[i + 1]))
        => LET single == SingleOf(frames[i], frames[i + 1])
           IN  /\ outs[i] = <<>>
               /\ \A u \in Uninit :
                    /\ Decoded(outs[i + 1])
                         = Decoded(avdtp_packet(single, u).out)
                    /\ Len(OfKind(outs[i + 1], "indent")) = 1
                    /\ OfKind(outs[i + 1], "indent")[1].sig_id
                         = frames[i].data[3] % 64

(***************************************************************************)
(* C2: a Continue fragment that arrives for a reassembly key with no       *)
(* preceding Start is handled like a malformed frame: the malformed marker *)
(* followed by a byte dump of that frame.                                  *)
(***************************************************************************)
C2_UnexpectedContinuation ==
    \A j \in 1..NCalls :
        (/\ IsContinue(frames[j])
         /\ \A i \in 1..(j - 1) :
              ~(IsStart(frames[i]) /\ SameKey(frames[i], frames[j])))
        => /\ Len(outs[j]) = 2
           /\ outs[j][1] = MalformedMarker
           /\ outs[j][2].kind = "hexdump"
====
